---- MODULE Spec2Model ----
(***************************************************************************)
(* Model of dynamic_graph_manager.device.robot.Robot: the tracer set-up,   *)
(* the registration of device signals for tracing and ROS publication and  *)
(* the teardown of the tracer.                                             *)
(*                                                                         *)
(* Strings are sequences of one-character strings, so that split, format   *)
(* and join are computed the way the code computes them.  Calls into the   *)
(* collaborators (tracer, device.after, rosPublish, plug, addTrace) are    *)
(* appended to the log `calls` in program order; a call of a Robot method  *)
(* is logged as well (obj = <<"Robot", r>>).                               *)
(***************************************************************************)
EXTENDS Integers, Sequences, FiniteSets, TLC

\* ------------------------------------------------------------------ bounds

\* Number of method calls made on the Robot object after its construction,
\* in the runs with one Robot object.
MaxCalls == 3

\* The same, in the runs with two Robot objects.
MaxShared == 1

\* ------------------------------------------------------- program constants

tracerSize == 1048576

\* --------------------------------------------------------------- strings

S_trace      == <<"t","r","a","c","e">>
S_triger     == <<".","t","r","i","g","e","r">>
S_dot        == <<".">>
S_sep        == <<"/">>
S_us         == <<"_">>
S_dgm        == <<".","d","y","n","a","m","i","c","_","g","r","a","p","h","_","m","a","n","a","g","e","r">>
S_prefix     == <<"d","g","_">>
S_suffix     == <<".","d","a","t">>
S_vector     == <<"v","e","c","t","o","r">>
S_topic      == <<"/","d","g","_","_">>
S_device     == <<"d","e","v","i","c","e","_","_">>
S_rosTrigger == <<"r","o","s","P","u","b","l","i","s","h",".","t","r","i","g","g","e","r">>
S_home       == <<"~">>
S_fmt        == <<"%","Y","_","%","m","_","%","d","_","%","H","_","%","M","_","%","S">>
S_param      == <<"/","d","y","n","a","m","i","c","_","g","r","a","p","h","/","l","o","g","_","d","i","r">>

DigitChar == <<"0","1","2","3","4","5","6","7","8","9">>

\* ------------------------------------------------------------ environment

Robots  == {1, 2}
Devices == {1, 2, 3}

\* The name of each device entity.
DeviceName(d) ==
  CASE d = 1 -> <<"d","A">>
    [] d = 2 -> <<"d","B">>
    [] OTHER -> <<"d","C">>

\* device.signals(): the qualified names of the signals a device exposes.
DeviceSignals(d) ==
  CASE d = 1 -> << >>
    [] d = 2 -> << <<"D",":",":","o",":",":","q">> >>
    [] OTHER -> << <<"D",":",":","i",":",":","u",":","v">>, <<"w">> >>

\* The name the caller gives a Robot.
RobotName == <<"r">>

\* Tracers the caller may pass to the constructor, and the name of each.
None == <<"None", 0>>
InjectedTracers == { <<"injected", 1>> }

TracerName(t) == IF t[1] = "created" THEN S_trace ELSE <<"t","x">>

\* Entries the caller may have scheduled in device.after before any Robot.
Foreign == <<"x",".","y">>

\* What rospy.get_param may answer: a value, or a failure (<< >>).
LogDirs == { <<"/","l">> }
Failure == << >>
Homes   == { <<"/","h","/","u">> }
Times   == { [Y |-> 2019, m |-> 3,  d |-> 7,  H |-> 9,  M |-> 5,  S |-> 0],
             [Y |-> 2020, m |-> 11, d |-> 23, H |-> 14, M |-> 30, S |-> 59] }

\* Arguments the caller may give to add_trace and export_signal_to_ros.
TraceArgs  == { << <<"p">>, <<"e">> >>, << <<"d","B">>, <<"q">> >> }
TopicArgs  == { << >>, << <<"t","q">> >> }

\* ------------------------------------------------------- string functions

\* signal.name.split('::')[-1]: cut at the first '::', left to right, and
\* go on with the rest; the last piece is what is left without a '::'.
RECURSIVE SplitLast(_)
SplitLast(s) ==
  LET at == { i \in 1..(Len(s) - 1) : s[i] = ":" /\ s[i + 1] = ":" }
  IN  IF at = {} THEN s
      ELSE LET i == CHOOSE k \in at : \A j \in at : k <= j
           IN  SplitLast(SubSeq(s, i + 2, Len(s)))

\* '{0}.{1}'.format(a, b)
Format(a, b) == a \o S_dot \o b

\* A number printed in decimal, zero-padded to width w (strftime's fields).
RECURSIVE Pad(_, _)
Pad(n, w) ==
  IF w = 0 THEN << >>
  ELSE Pad(n \div 10, w - 1) \o << DigitChar[(n % 10) + 1] >>

\* time.strftime("%Y_%m_%d_%H_%M_%S")
strftime(t) ==
  Pad(t.Y, 4) \o S_us \o Pad(t.m, 2) \o S_us \o Pad(t.d, 2) \o S_us \o
  Pad(t.H, 2) \o S_us \o Pad(t.M, 2) \o S_us \o Pad(t.S, 2)

\* os.path.join of two components.
Join2(a, b) ==
  IF b # << >> /\ b[1] = "/" THEN b
  ELSE IF a = << >> \/ a[Len(a)] = "/" THEN a \o b
  ELSE a \o S_sep \o b

\* os.path.join(a, b, c)
path_join(a, b, c) == Join2(Join2(a, b), c)

\* ------------------------------------------------------------------ state

VARIABLES
  robot,                  \* the fields of each Robot object
  autoRecomputedSignals,  \* Robot.autoRecomputedSignals, the class attribute
  after,                  \* device.after of each device: the scheduled names
  calls,                  \* the calls made so far, in program order
  created,                \* how many TracerRealTime objects were created
  ncalls,                 \* method calls made after the constructions
  scenario                \* "solo": one Robot object; "shared": two

vars == <<robot, autoRecomputedSignals, after, calls, created, ncalls, scenario>>

\* The Robot objects of the run, and the number of method calls it makes.
Objects == IF scenario = "solo" THEN {1} ELSE Robots
Limit   == IF scenario = "solo" THEN MaxCalls ELSE MaxShared

\* A call: who made it, on what, which operation, with which string, number
\* and object arguments, and what the environment answered (for strftime,
\* the clock it read).
CallX(r, obj, op, str, num, ref, ret) ==
  [by |-> r, obj |-> obj, op |-> op, str |-> str, num |-> num, ref |-> ref,
   ret |-> ret]

Call(r, obj, op, str, num) == CallX(r, obj, op, str, num, None, << >>)

AfterOf(d) == <<"after", d>>
RosOf(r)   == <<"rosPublish", r>>
PlugOf(r)  == <<"plug", r>>
SelfOf(r)  == <<"Robot", r>>
Rospy      == <<"rospy", 0>>
OsPath     == <<"os.path", 0>>
Time       == <<"time", 0>>

\* The program state the methods work on, as one record.
Cur ==
  [robot |-> robot, auto |-> autoRecomputedSignals, after |-> after,
   calls |-> calls, created |-> created]

\* A Robot object before __init__ has run: the class attributes only.
Blank ==
  [constructed |-> FALSE, name |-> << >>, device |-> 0, tracer |-> None,
   tracedSignals |-> << >>, device_signals_names |-> << >>, ros |-> FALSE]

\* A faulty LogDir: the fallback directory that the docstring names,
\* ~/.dynamic_graph/<date_time>.
LogDir_Docstring(env) ==
  IF env.param # Failure THEN env.param[1]
  ELSE path_join(env.home, SubSeq(S_dgm, 1, 14), strftime(env.now))

\* The resolved log directory of initialize_tracer's try/except.
LogDir(env) ==
  IF env.param # Failure THEN env.param[1]
  ELSE path_join(env.home, S_dgm, strftime(env.now))

\* The calls into the environment that resolving the log directory makes.
LogDirCalls(r, env) ==
  << CallX(r, Rospy, "get_param", <<S_param>>, 0, None, env.param) >> \o
  ( IF env.param # Failure THEN << >>
    ELSE << CallX(r, OsPath, "expanduser", <<S_home>>, 0, None, <<env.home>>),
            CallX(r, Time, "strftime", <<S_fmt>>, 0, None,
                  <<env.now.Y, env.now.m, env.now.d,
                    env.now.H, env.now.M, env.now.S>>) >> )

\* A faulty initialize_tracer: a tracer is created even when there is one.
initialize_tracer_Always(S, r, env) ==
  LET t == <<"created", S.created + 1>>
      d == S.robot[r].device
      trig == TracerName(t) \o S_triger
  IN  [S EXCEPT
         !.created = @ + 1,
         !.robot[r].tracer = t,
         !.calls = @ \o <<
            Call(r, t, "TracerRealTime", <<S_trace>>, 0),
            Call(r, t, "setBufferSize", << >>, tracerSize) >>
            \o LogDirCalls(r, env) \o <<
            Call(r, t, "open", <<LogDir(env), S_prefix, S_suffix>>, 0),
            Call(r, AfterOf(d), "addSignal", <<trig>>, 0) >>,
         !.after[d] = @ \cup {trig}]

\* A faulty initialize_tracer: the tracer's trigger is not scheduled.
initialize_tracer_NoTrigger(S, r, env) ==
  IF S.robot[r].tracer = None
  THEN LET t == <<"created", S.created + 1>>
       IN  [S EXCEPT
              !.created = @ + 1,
              !.robot[r].tracer = t,
              !.calls = @ \o <<
                 Call(r, t, "TracerRealTime", <<S_trace>>, 0),
                 Call(r, t, "setBufferSize", << >>, tracerSize) >>
                 \o LogDirCalls(r, env) \o <<
                 Call(r, t, "open", <<LogDir(env), S_prefix, S_suffix>>, 0) >>]
  ELSE S

\* Robot.initialize_tracer
initialize_tracer(S, r, env) ==
  IF S.robot[r].tracer = None
  THEN LET t == <<"created", S.created + 1>>
           d == S.robot[r].device
           trig == TracerName(t) \o S_triger
       IN  [S EXCEPT
              !.created = @ + 1,
              !.robot[r].tracer = t,
              !.calls = @ \o <<
                 Call(r, t, "TracerRealTime", <<S_trace>>, 0),
                 Call(r, t, "setBufferSize", << >>, tracerSize) >>
                 \o LogDirCalls(r, env) \o <<
                 Call(r, t, "open", <<LogDir(env), S_prefix, S_suffix>>, 0),
                 Call(r, AfterOf(d), "addSignal", <<trig>>, 0) >>,
              !.after[d] = @ \cup {trig}]
  ELSE S

\* Robot.add_trace; addTrace registers the signal with the tracer and
\* schedules it in robot.device.after.
add_trace(S, r, entityName, signalName) ==
  IF S.robot[r].tracer # None
  THEN LET sig == Format(entityName, signalName)
           d == S.robot[r].device
       IN  [S EXCEPT
              !.auto = Append(@, sig),
              !.calls = Append(@, Call(r, S.robot[r].tracer, "addTrace",
                                       <<entityName, signalName>>, 0)),
              !.after[d] = @ \cup {sig}]
  ELSE S

\* for s in self.tracedSignals['device']: self.add_trace(self.device.name, s)
RECURSIVE add_traces(_, _, _, _)
add_traces(S, r, entityName, names) ==
  IF names = << >> THEN S
  ELSE add_traces(add_trace(S, r, entityName, Head(names)), r, entityName,
                  Tail(names))

\* A faulty start_tracer: the tracer is started without the test.
start_tracer_Unguarded(S, r) ==
  [S EXCEPT !.calls = Append(@, Call(r, S.robot[r].tracer, "start", << >>, 0))]

\* Robot.start_tracer
start_tracer(S, r) ==
  IF S.robot[r].tracer # None
  THEN [S EXCEPT !.calls = Append(@, Call(r, S.robot[r].tracer, "start", << >>, 0))]
  ELSE S

\* A faulty RmCalls: only the entries this Robot recorded are removed, as
\* with a list of the instance.
RmCalls_Own(S, r) ==
  LET own == SelectSeq(S.calls, LAMBDA c : c.op = "addTrace" /\ c.by = r)
  IN  [i \in 1..Len(own) |->
         Call(r, AfterOf(S.robot[r].device), "rmSignal",
              <<Format(own[i].str[1], own[i].str[2])>>, 0)]

\* for s in self.autoRecomputedSignals: self.device.after.rmSignal(s)
RmCalls(S, r) ==
  [i \in 1..Len(S.auto) |->
     Call(r, AfterOf(S.robot[r].device), "rmSignal", <<S.auto[i]>>, 0)]

\* A faulty stop_tracer: the tracer reference is kept.
stop_tracer_KeepsTracer(S, r) ==
  IF S.robot[r].tracer # None
  THEN LET t == S.robot[r].tracer
           d == S.robot[r].device
       IN  [S EXCEPT
              !.calls = @ \o << Call(r, t, "dump", << >>, 0),
                                Call(r, t, "stop", << >>, 0),
                                Call(r, t, "close", << >>, 0),
                                Call(r, t, "clear", << >>, 0) >>
                          \o RmCalls(S, r),
              !.after[d] = @ \ { S.auto[i] : i \in 1..Len(S.auto) }]
  ELSE S

\* Robot.stop_tracer
stop_tracer(S, r) ==
  IF S.robot[r].tracer # None
  THEN LET t == S.robot[r].tracer
           d == S.robot[r].device
       IN  [S EXCEPT
              !.calls = @ \o << Call(r, t, "dump", << >>, 0),
                                Call(r, t, "stop", << >>, 0),
                                Call(r, t, "close", << >>, 0),
                                Call(r, t, "clear", << >>, 0) >>
                          \o RmCalls(S, r),
              !.after[d] = @ \ { S.auto[i] : i \in 1..Len(S.auto) },
              !.robot[r].tracer = None]
  ELSE S

\* Robot.__del__
Robot__del__(S, r) ==
  IF S.robot[r].tracer # None THEN stop_tracer(S, r) ELSE S

\* A faulty export_signal_to_ros: the signal is plugged before the entry
\* is added.
export_signal_to_ros_PlugFirst(S, r, signal, topic) ==
  LET topic_name == IF topic = << >> THEN signal ELSE topic[1]
  IN  [S EXCEPT
         !.calls = @ \o <<
            Call(r, PlugOf(r), "plug", <<signal, topic_name>>, 0),
            Call(r, RosOf(r), "add", <<S_vector, topic_name, S_topic \o topic_name>>, 0) >>]

\* Robot.export_signal_to_ros; topic is << >> for None, <<name>> otherwise.
export_signal_to_ros(S, r, signal, topic) ==
  LET topic_name == IF topic = << >> THEN signal ELSE topic[1]
  IN  [S EXCEPT
         !.calls = @ \o <<
            Call(r, RosOf(r), "add", <<S_vector, topic_name, S_topic \o topic_name>>, 0),
            Call(r, PlugOf(r), "plug", <<signal, topic_name>>, 0) >>]

\* self.device.signal(sig_name): the device's signal of that short name.
DeviceSignal(d, sig_name) ==
  LET sigs == DeviceSignals(d)
      i == CHOOSE k \in 1..Len(sigs) : SplitLast(sigs[k]) = sig_name
  IN  sigs[i]

\* Robot.export_device_dg_to_ros, on the names still to export.
RECURSIVE export_names(_, _, _)
export_names(S, r, names) ==
  IF names = << >> THEN S
  ELSE export_names(
         export_signal_to_ros(S, r,
            DeviceSignal(S.robot[r].device, Head(names)),
            <<S_device \o Head(names)>>),
         r, Tail(names))

export_device_dg_to_ros(S, r) ==
  export_names(S, r, S.robot[r].device_signals_names)

\* A faulty ShortNames: the loop misses the last signal.
ShortNames_DropLast(d) ==
  [i \in 1..(Len(DeviceSignals(d)) - 1) |-> SplitLast(DeviceSignals(d)[i])]

\* The short names of the device's signals (the loop of __init__).
ShortNames(d) ==
  [i \in 1..Len(DeviceSignals(d)) |-> SplitLast(DeviceSignals(d)[i])]

\* Robot.__init__(name, device, tracer)
Robot__init__(S, r, name, d, tracer, env) ==
  LET S0 == [S EXCEPT
               !.robot[r] = [Blank EXCEPT
                  !.constructed = TRUE, !.name = name, !.device = d,
                  !.tracer = IF tracer # None THEN tracer ELSE Blank.tracer]]
      S1 == initialize_tracer(S0, r, env)
      S2 == [S1 EXCEPT !.robot[r].tracedSignals = ShortNames(d),
                       !.robot[r].device_signals_names = ShortNames(d)]
      S3 == add_traces(S2, r, DeviceName(d), S2.robot[r].tracedSignals)
      S4 == [S3 EXCEPT
               !.robot[r].ros = TRUE,
               !.calls = @ \o <<
                  Call(r, RosOf(r), "Ros", << >>, 0),
                  Call(r, AfterOf(d), "addDownsampledSignal", <<S_rosTrigger>>, 1) >>,
               !.after[d] = @ \cup {S_rosTrigger}]
  IN  export_device_dg_to_ros(S4, r)

\* ---------------------------------------------------------------- actions

Envs == [param : {Failure} \cup { <<l>> : l \in LogDirs }, home : Homes, now : Times]

Store(S) ==
  /\ robot' = S.robot
  /\ autoRecomputedSignals' = S.auto
  /\ after' = S.after
  /\ calls' = S.calls
  /\ created' = S.created

\* The method call itself, with its arguments, as the first entry the call
\* adds to the log.
Entered(r, op, str, num, ref, ret) ==
  [Cur EXCEPT !.calls = Append(@, CallX(r, SelfOf(r), op, str, num, ref, ret))]

Enter(r, op) == Entered(r, op, << >>, 0, None, << >>)

Start ==
  /\ robot = [r \in Robots |-> Blank]
  /\ autoRecomputedSignals = << >>
  /\ after = [d \in Devices |-> {Foreign}]
  /\ calls = << >>
  /\ created = 0
  /\ ncalls = 0

Init == Start /\ scenario = "solo"

InitShared == Start /\ scenario = "shared"

Construct(r) ==
  /\ r \in Objects
  /\ ~robot[r].constructed
  /\ \E d \in Devices, t \in {None} \cup InjectedTracers, env \in Envs :
       Store(Robot__init__(Entered(r, "__init__", <<RobotName>>, d, t, << >>),
                           r, RobotName, d, t, env))
  /\ UNCHANGED <<ncalls, scenario>>

Method(r) ==
  /\ r \in Objects
  /\ robot[r].constructed
  /\ ncalls < Limit
  /\ ncalls' = ncalls + 1
  /\ UNCHANGED scenario

InitializeTracer(r) ==
  /\ Method(r)
  /\ \E env \in Envs : Store(initialize_tracer(Enter(r, "initialize_tracer"), r, env))

AddTrace(r) ==
  /\ Method(r)
  /\ \E a \in TraceArgs : Store(add_trace(Entered(r, "add_trace", a, 0, None, << >>), r, a[1], a[2]))

StartTracer(r) ==
  /\ Method(r)
  /\ Store(start_tracer(Enter(r, "start_tracer"), r))

StopTracer(r) ==
  /\ Method(r)
  /\ Store(stop_tracer(Enter(r, "stop_tracer"), r))

Del(r) ==
  /\ Method(r)
  /\ Store(Robot__del__(Enter(r, "__del__"), r))

ExportSignalToRos(r) ==
  /\ Method(r)
  /\ Len(DeviceSignals(robot[r].device)) > 0
  /\ \E i \in 1..Len(DeviceSignals(robot[r].device)), topic \in TopicArgs :
       LET signal == DeviceSignals(robot[r].device)[i]
       IN  Store(export_signal_to_ros(
                   Entered(r, "export_signal_to_ros", <<signal>>, 0, None, topic),
                   r, signal, topic))

ExportDeviceDgToRos(r) ==
  /\ Method(r)
  /\ Store(export_device_dg_to_ros(Enter(r, "export_device_dg_to_ros"), r))

Next ==
  \E r \in Robots :
    \/ Construct(r)
    \/ InitializeTracer(r)
    \/ AddTrace(r)
    \/ StartTracer(r)
    \/ StopTracer(r)
    \/ Del(r)
    \/ ExportSignalToRos(r)
    \/ ExportDeviceDgToRos(r)

Spec == Init /\ [][Next]_vars

SpecShared == InitShared /\ [][Next]_vars

\* ------------------------------------------------------ reading the log

\* The entries of the log that are calls of Robot methods.
Marks == { i \in DOMAIN calls : calls[i].obj[1] = "Robot" }

\* The method calls of Robot r among the operations ops.
MarksOf(r, ops) == { i \in Marks : calls[i].by = r /\ calls[i].op \in ops }

\* The calls the method call at entry i made: up to the next method call.
SegEnd(i) ==
  IF \E j \in Marks : j > i
  THEN (CHOOSE j \in Marks : j > i /\ \A k \in Marks : k > i => j <= k) - 1
  ELSE Len(calls)

Seg(i) == SubSeq(calls, i + 1, SegEnd(i))

\* The constructor call of a constructed Robot.
InitMark(r) == CHOOSE i \in MarksOf(r, {"__init__"}) : TRUE

\* The calls of one operation in a piece of the log.
Ops(seq, op) == SelectSeq(seq, LAMBDA c : c.op = op)

\* The part of a qualified name after its last '::'.
ShortOf(s) ==
  LET at == { i \in 1..(Len(s) - 1) : s[i] = ":" /\ s[i + 1] = ":" }
  IN  IF at = {} THEN s
      ELSE SubSeq(s, (CHOOSE k \in at : \A j \in at : j <= k) + 2, Len(s))

Teardown == {"stop_tracer", "__del__"}

\* Teardown has been called on Robot r.
Torn(r) == MarksOf(r, Teardown) # {}

\* Teardown has been called on r, and initialize_tracer not since.
TornSince(r) ==
  \E i \in MarksOf(r, Teardown) :
    \A j \in MarksOf(r, {"initialize_tracer"}) : j < i

\* In a step: the method call that the step is, and what the step logged.
NewMark == calls'[Len(calls) + 1]
New     == SubSeq(calls', Len(calls) + 1, Len(calls'))

\* The step is a call on r of one of the methods ops.
Calling(r, ops) ==
  /\ Len(calls') > Len(calls)
  /\ NewMark.by = r
  /\ NewMark.op \in ops

\* The step did nothing but be called.
NoOp ==
  /\ calls' = Append(calls, NewMark)
  /\ UNCHANGED <<robot, autoRecomputedSignals, after, created>>

\* ---------------------------------------------------------------- claims

\* C1: constructing a Robot on a device with N signals makes exactly N
\* addTrace calls, the i-th for '<device.name>' and the short name of the
\* i-th signal, records exactly these N names '<device.name>.<short name>'
\* in the list, and makes exactly N rosPublish.add and N plug calls, with an
\* injected tracer as with a created one.
C1_Registrations ==
  \A r \in Robots : robot[r].constructed =>
    LET m    == InitMark(r)
        seg  == Seg(m)
        d    == calls[m].num
        sigs == DeviceSignals(d)
        N    == Len(sigs)
        tr   == Ops(seg, "addTrace")
        off  == Len(Ops(SubSeq(calls, 1, m), "addTrace"))
    IN  /\ Len(tr) = N
        /\ \A i \in 1..N : tr[i].str = <<DeviceName(d), ShortOf(sigs[i])>>
        /\ Len(autoRecomputedSignals) >= off + N
        /\ \A i \in 1..N :
             autoRecomputedSignals[off + i] =
               DeviceName(d) \o <<".">> \o ShortOf(sigs[i])
        /\ Len(Ops(seg, "add")) = N
        /\ Len(Ops(seg, "plug")) = N

\* Two Robots are constructed: one creates its tracer, on the device with
\* two signals, the other is given one, on the device with one signal.
C1_Witness ==
  /\ robot[1].constructed /\ robot[2].constructed
  /\ calls[InitMark(1)].ref = None /\ calls[InitMark(1)].num = 3
  /\ calls[InitMark(2)].ref # None /\ calls[InitMark(2)].num = 2

\* C2 as stated: once stop_tracer or __del__ has been called on a Robot,
\* every further stop_tracer or __del__ call on it is a no-op.
C2_Original ==
  [][\A r \in Robots : (Torn(r) /\ Calling(r, Teardown)) => NoOp]_vars

\* C2 amended: once stop_tracer or __del__ has been called on a Robot, every
\* further stop_tracer or __del__ call on it is a no-op, as long as
\* initialize_tracer has not been called on it since that teardown.
C2_Idempotent ==
  [][\A r \in Robots : (TornSince(r) /\ Calling(r, Teardown)) => NoOp]_vars

\* Teardown was called twice on a Robot, with no initialize_tracer between.
C2_Witness ==
  \E r \in Robots : \E i, j \in MarksOf(r, Teardown) :
    /\ i < j
    /\ \A k \in MarksOf(r, {"initialize_tracer"}) : k < i \/ k > j

\* What Robot r scheduled in its device's post-step list: the tracer's
\* trigger, the downsampled publish trigger, and the traced signals.
AddedBy(r) ==
  { calls[i].str[1] : i \in { k \in DOMAIN calls :
        /\ calls[k].by = r
        /\ calls[k].op \in {"addSignal", "addDownsampledSignal"} } }
  \cup
  { calls[i].str[1] \o <<".">> \o calls[i].str[2] : i \in { k \in DOMAIN calls :
        calls[k].by = r /\ calls[k].op = "addTrace" } }

\* C3: a teardown that finds a tracer removes from the device's post-step
\* list exactly the entries the Robot scheduled, and changes nothing else.
C3_RemovesExactlyAdded ==
  [][\A r \in Robots :
       (Calling(r, Teardown) /\ robot[r].tracer # None) =>
          after' = [after EXCEPT ![robot[r].device] = @ \ AddedBy(r)]]_vars

\* The digits of a string, as a number.
RECURSIVE Num(_)
Num(s) ==
  IF s = << >> THEN 0
  ELSE 10 * Num(SubSeq(s, 1, Len(s) - 1))
       + (CHOOSE v \in 0..9 : DigitChar[v + 1] = s[Len(s)])

\* s is YYYY_MM_DD_HH_MM_SS for the clock reading c.
IsStamp(s, c) ==
  /\ Len(s) = 19
  /\ \A i \in {5, 8, 11, 14, 17} : s[i] = "_"
  /\ \A i \in (1..19) \ {5, 8, 11, 14, 17} : \E v \in 1..10 : DigitChar[v] = s[i]
  /\ Num(SubSeq(s, 1, 4)) = c[1]
  /\ Num(SubSeq(s, 6, 7)) = c[2]
  /\ Num(SubSeq(s, 9, 10)) = c[3]
  /\ Num(SubSeq(s, 12, 13)) = c[4]
  /\ Num(SubSeq(s, 15, 16)) = c[5]
  /\ Num(SubSeq(s, 18, 19)) = c[6]

C5_InjectedNotClosed ==
  \A i \in DOMAIN calls :
    calls[i].op = "close" =>
      calls[i].obj # calls[InitMark(calls[i].by)].ref

\* C6: in the constructor, an injected tracer becomes the Robot's tracer and
\* no tracer is created, sized or opened; without one, exactly one tracer is
\* created, its buffer size set to tracerSize and it is opened once, and it
\* becomes the Robot's tracer.  Until teardown is called the Robot's tracer
\* is that tracer, and not None.
C6_OneTracer ==
  \A r \in Robots : robot[r].constructed =>
    LET m   == InitMark(r)
        seg == Seg(m)
        inj == calls[m].ref
        mk  == Ops(seg, "TracerRealTime")
        sz  == Ops(seg, "setBufferSize")
        op  == Ops(seg, "open")
    IN  /\ inj # None => Len(mk) = 0 /\ Len(sz) = 0 /\ Len(op) = 0
        /\ inj = None =>
             /\ Len(mk) = 1 /\ Len(sz) = 1 /\ Len(op) = 1
             /\ sz[1].obj = mk[1].obj /\ sz[1].num = 1048576
             /\ op[1].obj = mk[1].obj
        /\ ~Torn(r) =>
             /\ robot[r].tracer # None
             /\ robot[r].tracer = IF inj # None THEN inj ELSE mk[1].obj

\* A Robot given a tracer has had methods called on it, none a teardown.
C6_Witness ==
  \E r \in Robots :
    /\ robot[r].constructed
    /\ calls[InitMark(r)].ref # None
    /\ ~Torn(r)
    /\ MarksOf(r, {"start_tracer", "add_trace", "initialize_tracer"}) # {}

\* The constructor of r is the last method called.
JustConstructed(r) ==
  robot[r].constructed /\ SegEnd(InitMark(r)) = Len(calls)

\* C7 as stated: after construction the trigger signal of the Robot's tracer
\* is in the device's post-step list, whether the tracer was created or
\* injected.
C7_Original ==
  \A r \in Robots : JustConstructed(r) =>
    (TracerName(robot[r].tracer) \o <<".","t","r","i","g","e","r">>)
       \in after[robot[r].device]

\* C7 amended: after construction, the trigger signal of a tracer the Robot
\* created is in the device's post-step list; for an injected tracer the
\* constructor schedules no trigger (it makes no addSignal call).
C7_TriggerScheduled ==
  \A r \in Robots : JustConstructed(r) =>
    IF calls[InitMark(r)].ref = None
    THEN (TracerName(robot[r].tracer) \o <<".","t","r","i","g","e","r">>)
            \in after[robot[r].device]
    ELSE Len(Ops(Seg(InitMark(r)), "addSignal")) = 0

\* A Robot that created its tracer has just been constructed.
C7_Witness ==
  \E r \in Robots : JustConstructed(r) /\ calls[InitMark(r)].ref = None

\* C8: the constructor republishes the k-th device signal, of short name s,
\* as the entry 'device__s' on the topic '/dg__device__s' and plugs the
\* device's signal into it; every plug comes after the add of its entry; and
\* export_signal_to_ros without a topic name uses the signal's name.
C8_Republish ==
  /\ \A r \in Robots : robot[r].constructed =>
       LET seg  == Seg(InitMark(r))
           sigs == DeviceSignals(calls[InitMark(r)].num)
           ad   == Ops(seg, "add")
           pl   == Ops(seg, "plug")
       IN  /\ Len(ad) = Len(sigs) /\ Len(pl) = Len(sigs)
           /\ \A k \in 1..Len(sigs) :
                LET t == <<"d","e","v","i","c","e","_","_">> \o ShortOf(sigs[k])
                IN  /\ ad[k].str = << S_vector, t, <<"/","d","g","_","_">> \o t >>
                    /\ pl[k].str = << sigs[k], t >>
  /\ \A i \in DOMAIN calls : calls[i].op = "plug" =>
       \E j \in 1..(i - 1) :
         /\ calls[j].op = "add"
         /\ calls[j].by = calls[i].by
         /\ calls[j].str[2] = calls[i].str[2]
  /\ \A m \in Marks :
       (calls[m].op = "export_signal_to_ros" /\ calls[m].ret = << >>) =>
          LET n == calls[m].str[1]
          IN  Seg(m) = << Call(calls[m].by, RosOf(calls[m].by), "add",
                               << S_vector, n, <<"/","d","g","_","_">> \o n >>, 0),
                          Call(calls[m].by, PlugOf(calls[m].by), "plug",
                               << n, n >>, 0) >>

\* A Robot on the device with two signals, on which export_signal_to_ros
\* was called without a topic name.
C8_Witness ==
  \E r \in Robots :
    /\ robot[r].constructed
    /\ calls[InitMark(r)].num = 3
    /\ \E m \in MarksOf(r, {"export_signal_to_ros"}) : calls[m].ret = << >>

\* Only start_tracer, add_trace and stop_tracer were called on Robot r.
Plain(r) ==
  \A i \in Marks :
    calls[i].by = r =>
      calls[i].op \in {"__init__", "start_tracer", "add_trace", "stop_tracer"}

Stopped(r) == MarksOf(r, {"stop_tracer"}) # {}

\* C9: in a sequence of start_tracer, add_trace and stop_tracer calls on a
\* Robot, once stop_tracer has run every later call of the three does
\* nothing (no tracer.start, nothing recorded, no addTrace, no tracer method
\* at all); before that, a start_tracer call makes exactly one tracer.start
\* call, on the Robot's tracer.
C9_StartOnlyBeforeStop ==
  [][\A r \in Robots : (robot[r].constructed /\ Plain(r)) =>
       /\ (Stopped(r) /\ Calling(r, {"start_tracer", "add_trace", "stop_tracer"}))
             => NoOp
       /\ (~Stopped(r) /\ Calling(r, {"start_tracer"})) =>
             /\ robot[r].tracer # None
             /\ New = << NewMark, Call(r, robot[r].tracer, "start", << >>, 0) >>
             /\ UNCHANGED <<robot, autoRecomputedSignals, after, created>>]_vars

\* stop_tracer was called, and start_tracer and add_trace after it.
C9_Witness ==
  \E r \in Robots :
    /\ Plain(r)
    /\ \E i \in MarksOf(r, {"stop_tracer"}) :
         /\ \E j \in MarksOf(r, {"start_tracer"}) : i < j
         /\ \E k \in MarksOf(r, {"add_trace"}) : i < k

\* The names recorded by the addTrace calls of a piece of the log, in order.
Recorded(seq) ==
  [i \in 1..Len(Ops(seq, "addTrace")) |->
     Ops(seq, "addTrace")[i].str[1] \o <<".">> \o Ops(seq, "addTrace")[i].str[2]]

\* C10: the list is, in call order, every '<entity>.<signal>' that an
\* add_trace of any Robot recorded, nothing is ever removed from it, and a
\* teardown that finds a tracer calls rmSignal on its own device once for
\* every entry recorded so far by any Robot, in order.
C10_SharedAppendOnly ==
  /\ autoRecomputedSignals = Recorded(calls)
  /\ \A m \in Marks :
       (calls[m].op \in Teardown /\ Len(Ops(Seg(m), "close")) > 0) =>
          LET r   == calls[m].by
              rec == Recorded(SubSeq(calls, 1, m))
          IN  Ops(Seg(m), "rmSignal") =
                [i \in 1..Len(rec) |->
                   Call(r, AfterOf(calls[InitMark(r)].num), "rmSignal",
                        << rec[i] >>, 0)]

\* The teardown of one Robot called rmSignal for an entry that the other
\* Robot recorded.
C10_Witness ==
  \E m \in Marks :
    /\ calls[m].op \in Teardown
    /\ \E i \in (m + 1)..SegEnd(m) :
         /\ calls[i].op = "rmSignal"
         /\ \E k \in 1..m :
              /\ calls[k].op = "addTrace"
              /\ calls[k].by # calls[m].by
              /\ calls[k].str[1] \o <<".">> \o calls[k].str[2] = calls[i].str[1]
              /\ \A j \in 1..m :
                   (calls[j].op = "addTrace" /\ calls[j].by = calls[m].by) =>
                      calls[j].str # calls[k].str

====
